---- MODULE Spec2Model ----
(***************************************************************************)
(* Model of src/src/cockpit/transports.py: the duplex fd transport         *)
(* (_Transport) with its socket, stdio and subprocess (pipe / pty)         *)
(* specialisations, driven by a consumer (Protocol) and a reactor.         *)
(*                                                                         *)
(* Each method of the transport is an operator on a record `s` holding the *)
(* object's fields, the reactor registrations and the effects of the call  *)
(* in progress (callbacks delivered, exception raised, syscall made), so   *)
(* that a method calling another is operator composition, in source order. *)
(* An action of Next is one entry into the transport: a consumer call or a *)
(* reactor callback, run to completion (the event loop is single-threaded).*)
(***************************************************************************)
EXTENDS Integers, Sequences, FiniteSets, TLC

\* ---------------------------------------------------------------- bounds
\* total number of bytes the consumer passes to write() over a run
MaxBytes == 4
\* longest single block passed to write()
MaxWriteLen == 2
\* most blocks held in the write queue (zero-length writes append for ever)
MaxQueue == 3
\* cap on the connection_lost() counter (abort() can be called for ever)
MaxLost == 2
\* bytes the child writes to the pipe a Spooler reads
MaxSpool == 4
\* size argument of os.read in Spooler._read_ready
ReadSize == 8192
\* the descriptor os.dup returns in Spooler.__init__
SpoolerFd == 9

\* ------------------------------------------------------------ vocabulary
Kinds == {"socket", "stdio", "pipe", "pty"}
ExitCodes == {0, 7}
None == <<>>
Some(x) == <<x>>

\* fds handed to _Transport.__init__ by each endpoint
InFd(k) == CASE k = "socket" -> 3 [] k = "stdio" -> 0 [] k = "pipe" -> 4 [] OTHER -> 6
OutFd(k) == CASE k = "socket" -> 3 [] k = "stdio" -> 1 [] k = "pipe" -> 5 [] OTHER -> 6
\* SubprocessTransport sets _eio_is_eof only on the pty branch
EioIsEof(k) == k = "pty"
\* Popen.stdin is a pipe object only when spawned with stdin=PIPE
HasStdinPipe(k) == k = "pipe"
IsProcess(k) == k \in {"pipe", "pty"}

RECURSIVE SumLen(_)
SumLen(q) == IF q = <<>> THEN 0 ELSE Len(Head(q)) + SumLen(Tail(q))

RECURSIVE Flatten(_)
Flatten(q) == IF q = <<>> THEN <<>> ELSE Head(q) \o Flatten(Tail(q))

\* data[n:] sliced one byte too far
Drop_OffByOne(data, n) == SubSeq(data, n + 2, Len(data))

\* data[n:] of Python, n counted from 0
Drop(data, n) == SubSeq(data, n + 1, Len(data))
\* data[:n]
Take(data, n) == SubSeq(data, 1, n)

VARIABLES
    kind,           \* which endpoint class was constructed
    queue,          \* _queue: None or Some(deque of blocks)
    in_fd, out_fd,  \* _in_fd, _out_fd
    closing,        \* _closing
    is_reading,     \* _is_reading
    eof,            \* _eof
    readers,        \* fds registered with loop.add_reader
    writers,        \* fds registered with loop.add_writer
    returncode,     \* SubprocessTransport._returncode
    reaper,         \* child watcher handler: "armed" | "fired" | "none"
    reported,       \* the exit status the child watcher reported, or None
    peer_closed,    \* the peer has closed the read side of the out-fd
    half_closed,    \* the endpoint's half-close has taken effect
    written,        \* history: bytes passed to write() past its assertions
    accepted,       \* history: bytes the out-fd accepted
    flow,           \* history: pause_writing / resume_writing notifications
    n_lost,         \* history: connection_lost() deliveries
    n_eof,          \* history: eof_received() deliveries
    n_exited,       \* history: process_exited() deliveries
    n_eof_now,      \* history: invocations of _write_eof_now
    deferred,       \* history: write_eof() was called with a queue present
    broken,         \* history: a BrokenPipeError was caught
    loop_iter,      \* parity of the reactor callbacks dispatched so far
    op,             \* the entry point of the last step
    calls,          \* callbacks delivered by the last step, in order
    raised,         \* exception that escaped the last step, or "none"
    wrote,          \* the last step attempted a write syscall on the out-fd
    resume_size,    \* get_write_buffer_size() as resume_writing() saw it in
                    \* the last step, or -1 if it was not delivered
    io,             \* what the last step's syscall returned, or "none"
    \* ---- the Spooler
    sp_fd,          \* Spooler._fd
    sp_contents,    \* Spooler._contents, a sequence of blocks
    sp_readers,     \* fds the reactor has a Spooler reader for
    sp_pipe,        \* bytes in the pipe that no read has returned yet
    sp_hup,         \* every write end of the pipe is closed
    sp_sent,        \* bytes written to the pipe so far
    sp_n_close,     \* os.close() calls made by the Spooler
    sp_n_remove,    \* remove_reader() calls made by the Spooler
    sp_del,         \* the Spooler has been finalized
    sp_op,          \* the Spooler step that ran last
    sp_got,         \* what get() returned in the last step, or None
    sp_fdops        \* select/read/remove_reader/close calls of the last step

tvars == <<kind, queue, in_fd, out_fd, closing, is_reading, eof, readers,
          writers, returncode, reaper, peer_closed, half_closed, written,
          accepted, flow, n_lost, n_eof, n_exited, n_eof_now, op, calls,
          raised, wrote, reported, deferred, broken, loop_iter, io,
          resume_size>>

spvars == <<sp_fd, sp_contents, sp_readers, sp_pipe, sp_hup, sp_sent,
            sp_n_close, sp_n_remove, sp_del, sp_op, sp_got, sp_fdops>>

vars == <<tvars, spvars>>

\* the transport as one record, effects of the previous step cleared
Self(o) ==
    [kind |-> kind, queue |-> queue, in_fd |-> in_fd, out_fd |-> out_fd,
     closing |-> closing, is_reading |-> is_reading, eof |-> eof,
     readers |-> readers, writers |-> writers, returncode |-> returncode,
     reaper |-> reaper, peer_closed |-> peer_closed,
     half_closed |-> half_closed, written |-> written,
     accepted |-> accepted, flow |-> flow, n_lost |-> n_lost,
     n_eof |-> n_eof, n_exited |-> n_exited, n_eof_now |-> n_eof_now,
     reported |-> reported, deferred |-> deferred, broken |-> broken,
     loop_iter |-> loop_iter,
     op |-> o, calls |-> <<>>, raised |-> "none", wrote |-> FALSE,
     io |-> "none", resume_size |-> -1]

Commit(s) ==
    /\ kind' = s.kind /\ queue' = s.queue
    /\ in_fd' = s.in_fd /\ out_fd' = s.out_fd
    /\ closing' = s.closing /\ is_reading' = s.is_reading /\ eof' = s.eof
    /\ readers' = s.readers /\ writers' = s.writers
    /\ returncode' = s.returncode /\ reaper' = s.reaper
    /\ peer_closed' = s.peer_closed /\ half_closed' = s.half_closed
    /\ written' = s.written /\ accepted' = s.accepted /\ flow' = s.flow
    /\ n_lost' = s.n_lost /\ n_eof' = s.n_eof /\ n_exited' = s.n_exited
    /\ n_eof_now' = s.n_eof_now
    /\ op' = s.op /\ calls' = s.calls /\ raised' = s.raised
    /\ wrote' = s.wrote /\ io' = s.io /\ resume_size' = s.resume_size
    /\ reported' = s.reported /\ deferred' = s.deferred
    /\ broken' = s.broken /\ loop_iter' = s.loop_iter
    /\ UNCHANGED spvars

Raise(s, exc) == [s EXCEPT !.raised = exc]
Deliver(s, cb) == [s EXCEPT !.calls = Append(@, cb)]

\* ------------------------------------------------- consumer callbacks
get_write_buffer_size(s) ==
    IF s.queue = None THEN 0 ELSE SumLen(s.queue[1])

data_received(s) == Deliver(s, "data_received")
eof_received(s) == [Deliver(s, "eof_received") EXCEPT !.n_eof = @ + 1]
connection_lost(s) == [Deliver(s, "connection_lost") EXCEPT !.n_lost = @ + 1]
pause_writing(s) ==
    [Deliver(s, "pause_writing") EXCEPT !.flow = Append(@, "pause")]
resume_writing(s) ==
    [Deliver(s, "resume_writing") EXCEPT
        !.flow = Append(@, "resume"),
        !.resume_size = get_write_buffer_size(s)]
process_exited(s) ==
    [Deliver(s, "process_exited") EXCEPT !.n_exited = @ + 1]

\* ------------------------------------------------------ _Transport
\* pause_reading that leaves the reader registered
pause_reading_KeepsReader(s) ==
    IF s.is_reading THEN [s EXCEPT !.is_reading = FALSE] ELSE s

pause_reading(s) ==
    IF s.is_reading
    THEN [s EXCEPT !.readers = @ \ {s.in_fd}, !.is_reading = FALSE]
    ELSE s

\* resume_reading without its test of _in_fd
resume_reading_NoFdCheck(s) ==
    IF ~s.is_reading
    THEN [s EXCEPT !.readers = @ \cup {s.in_fd}, !.is_reading = TRUE]
    ELSE s

resume_reading(s) ==
    IF ~s.is_reading /\ s.in_fd # -1
    THEN [s EXCEPT !.readers = @ \cup {s.in_fd}, !.is_reading = TRUE]
    ELSE s

\* _close_reader that forgets to invalidate the in-fd
close_reader_KeepsFd(s) == pause_reading(s)

close_reader(s) == [pause_reading(s) EXCEPT !.in_fd = -1]

\* _remove_write_queue without its `is not None` guard
remove_write_queue_Unguarded(s) ==
    [resume_writing(s) EXCEPT !.writers = @ \ {s.out_fd}, !.queue = None]

remove_write_queue(s) ==
    IF s.queue # None
    THEN [resume_writing(s) EXCEPT !.writers = @ \ {s.out_fd},
                                   !.queue = None]
    ELSE s

\* _create_write_queue that forgets add_writer
create_write_queue_NoWriter(s, data) ==
    pause_writing([s EXCEPT !.queue = Some(<<data>>)])

create_write_queue(s, data) ==
    pause_writing([s EXCEPT !.writers = @ \cup {s.out_fd},
                            !.queue = Some(<<data>>)])

abort(s) ==
    connection_lost(remove_write_queue(close_reader(
        [s EXCEPT !.closing = TRUE])))

\* close() that aborts at once, whether or not a queue is outstanding
close_NotDeferred(s) ==
    IF s.closing THEN s
    ELSE abort(close_reader([s EXCEPT !.closing = TRUE]))

close(s) ==
    IF s.closing THEN s
    ELSE LET t == close_reader([s EXCEPT !.closing = TRUE])
         IN  IF t.queue # None THEN t ELSE abort(t)

\* the per-endpoint _write_eof_now: socket shutdown(SHUT_WR), stdin pipe
\* close (pty: Popen.stdin is None, nothing happens), stdio RuntimeError
write_eof_now(s) ==
    LET t == [s EXCEPT !.n_eof_now = @ + 1]
    IN  CASE s.kind = "socket" -> [t EXCEPT !.half_closed = TRUE]
          [] s.kind = "stdio" -> Raise(t, "RuntimeError")
          [] HasStdinPipe(s.kind) ->
                [t EXCEPT !.half_closed = TRUE, !.out_fd = -1]
          [] OTHER -> t

\* write_eof() that half-closes at once, whether or not a queue is outstanding
write_eof_NotDeferred(s) ==
    IF s.eof THEN Raise(s, "AssertionError")
    ELSE write_eof_now([s EXCEPT !.eof = TRUE,
                                 !.deferred = s.queue # None])

\* write_eof() without its `assert not self._eof`
write_eof_Unasserted(s) ==
    LET t == [s EXCEPT !.eof = TRUE]
    IN  IF t.queue = None THEN write_eof_now(t)
        ELSE [t EXCEPT !.deferred = TRUE]

write_eof(s) ==
    IF s.eof THEN Raise(s, "AssertionError")
    ELSE LET t == [s EXCEPT !.eof = TRUE]
         IN  IF t.queue = None THEN write_eof_now(t)
             ELSE [t EXCEPT !.deferred = TRUE]

\* results of os.write(self._out_fd, data): a byte count, or BrokenPipeError
\* once the peer has closed its read side
OsWriteResults(s, data) ==
    IF s.peer_closed THEN {-1} ELSE 0 .. Len(data)

\* write() without its `assert not self._closing`
write_NoClosingAssert(s, data, res) ==
    IF s.eof THEN Raise(s, "AssertionError")
    ELSE LET t == [s EXCEPT !.written = @ \o data]
         IN  IF t.queue # None
             THEN [t EXCEPT !.queue = Some(Append(@[1], data))]
             ELSE LET u == [t EXCEPT !.wrote = TRUE]
                  IN  IF res = -1
                      THEN abort([u EXCEPT !.broken = TRUE, !.io = "epipe"])
                      ELSE LET v == [u EXCEPT !.io = "count", !.accepted =
                                                @ \o Take(data, res)]
                           IN  IF res # Len(data)
                               THEN create_write_queue(v, Drop(data, res))
                               ELSE v

write(s, data, res) ==
    IF s.closing \/ s.eof THEN Raise(s, "AssertionError")
    ELSE LET t == [s EXCEPT !.written = @ \o data]
         IN  IF t.queue # None
             THEN [t EXCEPT !.queue = Some(Append(@[1], data))]
             ELSE LET u == [t EXCEPT !.wrote = TRUE]
                  IN  IF res = -1
                      THEN abort([u EXCEPT !.broken = TRUE, !.io = "epipe"])
                      ELSE LET v == [u EXCEPT !.io = "count", !.accepted =
                                                @ \o Take(data, res)]
                           IN  IF res # Len(data)
                               THEN create_write_queue(v, Drop(data, res))
                               ELSE v

\* os.read(self._in_fd, BLOCK_SIZE): a non-empty chunk, b'' or an IOError
OsReadResults == {"data", "eof", "eio"}

read_ready(s0, res, keep_open) ==
    LET s == [s0 EXCEPT !.io = res]
    IN  IF res = "eio" /\ ~EioIsEof(s.kind) THEN Raise(s, "OSError")
        ELSE IF res = "data" THEN data_received(s)
        ELSE LET t == eof_received(close_reader(s))
             IN  IF ~keep_open THEN close(t) ELSE t

\* the while loop of _write_ready: pop blocks off the front while n_bytes is
\* non-zero; `drained` is the loop's else clause (left without a break)
RECURSIVE ConsumeQueue(_, _)
ConsumeQueue(q, n_bytes) ==
    IF n_bytes = 0 THEN [blocks |-> q, drained |-> TRUE]
    ELSE IF Len(Head(q)) > n_bytes
         THEN [blocks |-> <<Drop(Head(q), n_bytes)>> \o Tail(q),
               drained |-> FALSE]
         ELSE ConsumeQueue(Tail(q), n_bytes - Len(Head(q)))

\* results of the call `os.writev(self._queue)`.  os.writev(fd, buffers)
\* takes two positional arguments; called with the deque alone it raises
\* TypeError ("writev expected 2 arguments, got 1") before any syscall, so
\* neither a byte count nor BrokenPipeError is ever produced by this call.
WritevResults(s) == {[kind |-> "TypeError", n |-> 0]}

\* self._consider_closing(): no such attribute on _Transport or its bases
consider_closing(s) == Raise(s, "AttributeError")

write_ready(s, res) ==
    IF s.queue = None THEN Raise(s, "AssertionError")
    ELSE IF res.kind = "TypeError" THEN Raise(s, "TypeError")
    ELSE IF res.kind = "BrokenPipe"
         THEN abort([s EXCEPT !.wrote = TRUE, !.broken = TRUE,
                              !.io = "epipe"])
    ELSE LET c == ConsumeQueue(s.queue[1], res.n)
             t == [s EXCEPT !.wrote = TRUE, !.io = "count",
                            !.accepted = @ \o Take(Flatten(s.queue[1]), res.n)]
             r == [t EXCEPT !.queue = Some(c.blocks)]
         IN  IF ~c.drained THEN r
             ELSE LET u == remove_write_queue(r)
                      v == IF ~u.eof THEN u
                           ELSE LET w == write_eof_now(u)
                                IN  IF w.raised # "none" THEN w
                                    ELSE consider_closing(w)
                  IN  IF v.raised = "none" /\ v.closing THEN abort(v) ELSE v

\* _exited that trusts Popen's own waitpid() result (zero after ECHILD)
exited_PopenStatus(s, code) ==
    process_exited([s EXCEPT !.returncode = Some(0)])

\* SubprocessTransport._exited(pid, code), called by the child watcher
exited(s, code) == process_exited([s EXCEPT !.returncode = Some(code)])

\* ------------------------------------------------------------- Spooler
\* the Spooler as one record, effects of the previous step cleared
SpSelf(o) ==
    [fd |-> sp_fd, contents |-> sp_contents, readers |-> sp_readers,
     pipe |-> sp_pipe, hup |-> sp_hup, sent |-> sp_sent,
     n_close |-> sp_n_close, n_remove |-> sp_n_remove, del |-> sp_del,
     op |-> o, got |-> None, fdops |-> 0]

SpCommit(p) ==
    /\ sp_fd' = p.fd /\ sp_contents' = p.contents
    /\ sp_readers' = p.readers /\ sp_pipe' = p.pipe /\ sp_hup' = p.hup
    /\ sp_sent' = p.sent /\ sp_n_close' = p.n_close
    /\ sp_n_remove' = p.n_remove /\ sp_del' = p.del
    /\ sp_op' = p.op /\ sp_got' = p.got /\ sp_fdops' = p.fdops
    /\ UNCHANGED tvars

\* Spooler.__init__: dup the fd, start empty, register the reader
Spooler_init ==
    /\ sp_fd = SpoolerFd /\ sp_contents = <<>>
    /\ sp_readers = {SpoolerFd}
    /\ sp_pipe = <<>> /\ sp_hup = FALSE /\ sp_sent = 0
    /\ sp_n_close = 0 /\ sp_n_remove = 0 /\ sp_del = FALSE
    /\ sp_op = "init" /\ sp_got = None /\ sp_fdops = 0

\* Spooler.close without the test of _fd
Spooler_close_Unguarded(p) ==
    [p EXCEPT !.readers = @ \ {p.fd}, !.n_remove = @ + 1,
              !.n_close = @ + 1, !.fd = -1, !.fdops = @ + 2]

\* Spooler.close
Spooler_close(p) ==
    IF p.fd # -1
    THEN [p EXCEPT !.readers = @ \ {p.fd}, !.n_remove = @ + 1,
                   !.n_close = @ + 1, !.fd = -1, !.fdops = @ + 2]
    ELSE p

\* os.read(fd, ReadSize) on a readable pipe: what is there, up to ReadSize
SpoolerRead(p) ==
    Take(p.pipe, IF Len(p.pipe) < ReadSize THEN Len(p.pipe) ELSE ReadSize)

\* Spooler._read_ready
Spooler_read_ready(p) ==
    LET data == SpoolerRead(p)
        q == [p EXCEPT !.pipe = Drop(@, Len(data)), !.fdops = @ + 1]
    IN  IF data # <<>>
        THEN [q EXCEPT !.contents = Append(@, data)]
        ELSE Spooler_close(q)

\* what select() answers for the pipe: data to read, or end of file
SpoolerReadable(p) == p.pipe # <<>> \/ p.hup

\* Spooler.get: `while self._is_ready(): self._read_ready()`, then the join;
\* _is_ready answers False without a select() when _fd is -1
RECURSIVE Spooler_get_loop(_)
Spooler_get_loop(p) ==
    IF p.fd = -1 THEN p
    ELSE LET q == [p EXCEPT !.fdops = @ + 1]
         IN  IF SpoolerReadable(q)
             THEN Spooler_get_loop(Spooler_read_ready(q))
             ELSE q

Spooler_get(p) ==
    LET q == Spooler_get_loop(p)
    IN  [q EXCEPT !.got = Some(Flatten(q.contents))]

\* Spooler.__del__
Spooler_del(p) == [Spooler_close(p) EXCEPT !.del = TRUE]

\* ------------------------------------------------------------- actions
Init ==
    /\ Spooler_init
    /\ kind \in Kinds
    /\ queue = None
    /\ in_fd = InFd(kind) /\ out_fd = OutFd(kind)
    /\ closing = FALSE /\ eof = FALSE
    /\ is_reading = TRUE /\ readers = {InFd(kind)}
    /\ writers = {}
    /\ returncode = None
    /\ reaper = IF IsProcess(kind) THEN "armed" ELSE "none"
    /\ peer_closed = FALSE /\ half_closed = FALSE
    /\ written = <<>> /\ accepted = <<>> /\ flow = <<>>
    /\ n_lost = 0 /\ n_eof = 0 /\ n_exited = 0 /\ n_eof_now = 0
    /\ reported = None /\ deferred = FALSE /\ broken = FALSE
    /\ loop_iter = 0 /\ io = "none"
    /\ op = "init" /\ calls = <<"connection_made">>
    /\ raised = "none" /\ wrote = FALSE /\ resume_size = -1

\* the next fresh bytes: every byte passed to write() is distinct
NewData(n) == [i \in 1 .. n |-> Len(written) + i]

\* the consumer passes n fresh bytes to write()
Write ==
    \E n \in 0 .. MaxWriteLen :
        /\ Len(written) + n <= MaxBytes
        /\ queue # None => Len(queue[1]) < MaxQueue
        /\ \E res \in OsWriteResults(Self("write"), NewData(n)) :
              Commit(write(Self("write"), NewData(n), res))

WriteEof == \E s \in {write_eof(Self("write_eof"))} : Commit(s)

PauseReading == \E s \in {pause_reading(Self("pause_reading"))} : Commit(s)

ResumeReading ==
    \E s \in {resume_reading(Self("resume_reading"))} : Commit(s)

Close == \E s \in {close(Self("close"))} : Commit(s)

Abort ==
    /\ n_lost < MaxLost
    /\ Commit(abort(Self("abort")))

\* one reactor dispatch: the callback runs from the state Dispatched(o)
Dispatched(o) == [Self(o) EXCEPT !.loop_iter = 1 - @]

\* the reactor calls _read_ready while the in-fd is registered
ReadReady ==
    /\ readers # {}
    /\ \E res \in OsReadResults, keep_open \in BOOLEAN :
          Commit(read_ready(Dispatched("read_ready"), res, keep_open))

\* the reactor calls _write_ready while the out-fd is registered
WriteReady ==
    /\ writers # {}
    /\ \E res \in WritevResults(Dispatched("write_ready")) :
          Commit(write_ready(Dispatched("write_ready"), res))

\* the peer closes the read side of the out-fd
PeerClose ==
    /\ ~peer_closed
    /\ Commit([Self("peer_close") EXCEPT !.peer_closed = TRUE])

\* the child watcher reports the child's exit, once per registered handler
Exited ==
    /\ reaper = "armed"
    /\ \E code \in ExitCodes :
          Commit(exited([Dispatched("exited") EXCEPT !.reaper = "fired",
                                                    !.reported = Some(code)],
                        code))

Next ==
    \/ Write
    \/ WriteEof
    \/ PauseReading
    \/ ResumeReading
    \/ Close
    \/ Abort
    \/ ReadReady
    \/ WriteReady
    \/ PeerClose
    \/ Exited


Spec == Init /\ [][Next]_vars

\* ------------------------------------------------------ Spooler actions
\* the child writes n fresh bytes to its end of the pipe
SpFeed ==
    \E n \in 1 .. MaxWriteLen :
        /\ ~sp_hup /\ sp_sent + n <= MaxSpool
        /\ SpCommit([SpSelf("feed") EXCEPT
               !.pipe = @ \o [i \in 1 .. n |-> sp_sent + i],
               !.sent = @ + n])

\* the last write end of the pipe is closed
SpHangup ==
    /\ ~sp_hup
    /\ SpCommit([SpSelf("hangup") EXCEPT !.hup = TRUE])

\* the reactor calls Spooler._read_ready while the fd is registered and
\* readable
SpReadReady ==
    /\ sp_readers # {} /\ SpoolerReadable(SpSelf("read_ready"))
    /\ \E p \in {Spooler_read_ready(SpSelf("read_ready"))} : SpCommit(p)

SpGet ==
    /\ ~sp_del
    /\ \E p \in {Spooler_get(SpSelf("get"))} : SpCommit(p)

SpClose ==
    /\ ~sp_del
    /\ \E p \in {Spooler_close(SpSelf("close"))} : SpCommit(p)

\* the last reference to the Spooler goes away
SpDel ==
    /\ ~sp_del
    /\ \E p \in {Spooler_del(SpSelf("del"))} : SpCommit(p)

SpNext ==
    \/ SpFeed
    \/ SpHangup
    \/ SpReadReady
    \/ SpGet
    \/ SpClose
    \/ SpDel

\* SubprocessTransport creates the Spooler over the child's stderr pipe
SpoolerInit == Init /\ kind = "pipe"

SpoolerSpec == SpoolerInit /\ [][SpNext]_vars

\* the reactor keeps calling a registered writer while the out-fd is writable
FairSpec == Spec /\ WF_vars(WriteReady)

\* ================================================================ claims
QueuedBytes == IF queue = None THEN <<>> ELSE Flatten(queue[1])
Count(seq, x) == Cardinality({i \in DOMAIN seq : seq[i] = x})
LastCall == IF calls = <<>> THEN "none" ELSE calls[Len(calls)]

C2_ConnectionLostOnce ==
    /\ n_lost <= 1
    /\ (closing /\ queue = None) => n_lost = 1

\* C3: the pause_writing() / resume_writing() notifications strictly
\* alternate, starting with pause_writing().
C3_FlowAlternates ==
    \A i \in DOMAIN flow :
        flow[i] = IF i % 2 = 1 THEN "pause" ELSE "resume"

\* abort() discarded an outstanding queue: one pause, then one resume
C3_Witness ==
    /\ op = "abort" /\ flow = <<"pause", "resume">>
    /\ calls = <<"resume_writing", "connection_lost">>

\* C4: after a write_eof() made while a queue was outstanding, the half-close
\* action has been performed only if every byte passed to write() before it
\* has been accepted by the out-fd (write() is refused once _eof is set, so
\* `written` is exactly the bytes queued or accepted before the call).
C4_HalfCloseAfterFlush ==
    (deferred /\ n_eof_now > 0) => accepted = written

\* write_eof() has just been called with queued bytes outstanding
C4_Witness ==
    /\ op = "write_eof" /\ deferred /\ raised = "none"
    /\ queue # None /\ QueuedBytes # <<>> /\ n_eof_now = 0

\* C5: _write_eof_now is invoked at most once over the life of a transport.
C5_HalfCloseAtMostOnce == n_eof_now <= 1

\* the half-close was performed, and a second write_eof() was then refused
C5_Witness ==
    /\ n_eof_now = 1 /\ half_closed
    /\ op = "write_eof" /\ raised = "AssertionError"

\* C6: a read-ready callback that reads zero bytes (or, on an endpoint with
\* _eio_is_eof, gets an I/O error) delivers eof_received() exactly once and
\* raises nothing; on any other endpoint the I/O error is raised and no
\* callback is delivered; and eof_received() is delivered at most once over
\* the life of the transport.
C6_EofReceivedOnce ==
    /\ n_eof <= 1
    /\ (op = "read_ready" /\ (io = "eof" \/ (io = "eio" /\ EioIsEof(kind))))
          => /\ Count(calls, "eof_received") = 1
             /\ calls[1] = "eof_received"
             /\ raised = "none" /\ n_eof = 1
    /\ (op = "read_ready" /\ io = "eio" /\ ~EioIsEof(kind))
          => (raised = "OSError" /\ calls = <<>>)

\* EOF was delivered on a pty through an I/O error, the consumer kept the
\* write side open, and a later resume_reading() changed nothing
C6_Witness ==
    /\ kind = "pty" /\ n_eof = 1 /\ ~closing
    /\ op = "resume_reading" /\ in_fd = -1 /\ ~is_reading /\ readers = {}

\* C7: once closing is true it stays true, write() accepts nothing more and
\* nothing more is read; and, the out-fd being write-ready whenever a queue
\* is outstanding and the peer still accepting bytes, connection_lost() is
\* eventually delivered.
C7_ClosingIsTerminal ==
    /\ [][closing => /\ closing'
                     /\ written' = written
                     /\ ~is_reading' /\ readers' = {}
                     /\ Count(calls', "data_received") = 0
                     /\ Count(calls', "eof_received") = 0]_vars
    /\ [](closing => <>(n_lost > 0 \/ peer_closed))

\* C8: when a write to the out-fd meets a broken pipe - the synchronous write
\* in write() raising BrokenPipeError, or the write-readiness handler running
\* after the peer closed its read side - the transport is aborted within
\* that call: reading stopped, in-fd invalidated, queue discarded, write
\* registration removed, connection_lost() delivered last, no exception
\* raised; and no write to the out-fd is attempted afterwards.
BrokenPipeMet == io = "epipe" \/ (op = "write_ready" /\ peer_closed)

C8_BrokenPipeAborts ==
    /\ [](BrokenPipeMet =>
            /\ closing /\ ~is_reading /\ in_fd = -1 /\ readers = {}
            /\ queue = None /\ writers = {}
            /\ LastCall = "connection_lost" /\ raised = "none")
    /\ [][broken => ~wrote']_vars

\* the steps of close(): (a) a no-op on a closing transport, (b) teardown
\* within the call when no queue is outstanding, (c) deferral otherwise
C9_CloseSteps ==
    /\ (op' = "close" /\ closing) =>
          /\ UNCHANGED <<queue, in_fd, out_fd, closing, is_reading, eof,
                         readers, writers, n_lost, flow>>
          /\ calls' = <<>> /\ raised' = "none"
    /\ (op' = "close" /\ ~closing /\ queue = None) =>
          /\ closing' /\ calls' = <<"connection_lost">>
          /\ n_lost' = n_lost + 1
    /\ (op' = "close" /\ ~closing /\ queue # None) =>
          /\ closing' /\ ~is_reading' /\ readers' = {} /\ in_fd' = -1
          /\ queue' = queue /\ writers' = writers
          /\ calls' = <<>> /\ n_lost' = n_lost

\* close() has been deferred: closing, with the queue still outstanding
PendingClose == closing /\ queue # None

C10_ProcessExitedOnce ==
    IsProcess(kind) =>
        /\ n_exited <= 1
        /\ reaper = "armed" => (n_exited = 0 /\ returncode = None)
        /\ reaper = "fired" => (n_exited = 1 /\ returncode = reported
                                /\ reported # None)

\* stream EOF and connection_lost() came first, then the exit notification
C10_Witness ==
    /\ IsProcess(kind) /\ op = "exited" /\ calls = <<"process_exited">>
    /\ n_eof = 1 /\ n_lost = 1 /\ returncode = Some(7)

\* C11: a write_eof() call made when write-EOF was already requested or when
\* the transport is closing fails its precondition: it raises, leaves the
\* write-EOF flag as it was, and neither performs nor schedules the
\* half-close.
C11_WriteEofRejected ==
    [][(op' = "write_eof" /\ (eof \/ closing)) =>
          /\ raised' = "AssertionError"
          /\ eof' = eof /\ n_eof_now' = n_eof_now
          /\ half_closed' = half_closed /\ deferred' = deferred]_vars

\* C12: a write() call made while the transport is closing or after
\* write-EOF was requested fails its precondition: it raises, attempts no
\* write on the out-fd, appends nothing to the queue and delivers no
\* pause_writing().
C12_WriteRejected ==
    [][(op' = "write" /\ (closing \/ eof)) =>
          /\ raised' = "AssertionError" /\ ~wrote'
          /\ queue' = queue /\ writers' = writers
          /\ written' = written /\ accepted' = accepted
          /\ calls' = <<>> /\ flow' = flow]_vars

\* write() was refused while a deferred close still held queued bytes
C12_Witness ==
    /\ op = "write" /\ raised = "AssertionError" /\ ~wrote
    /\ closing /\ ~eof /\ queue # None /\ n_lost = 0

\* C13: on the stdio endpoint every write_eof() call fails at the call, with
\* or without a write queue outstanding.
C13_StdioWriteEofFailsFast ==
    [][(kind = "stdio" /\ op' = "write_eof") => raised' # "none"]_vars

\* C14: pause_writing() is delivered in exactly the write() calls whose
\* synchronous write accepted fewer bytes than supplied, and whenever
\* resume_writing() is delivered get_write_buffer_size() is zero: every
\* queued byte has been accepted by the out-fd.
C14_ZeroWatermark ==
    /\ Count(calls, "pause_writing") > 0
          <=> (op = "write" /\ io = "count" /\ accepted # written)
    /\ Count(calls, "resume_writing") > 0 => resume_size = 0

SpBytes == Flatten(sp_contents)

\* C15: over any sequence of Spooler read-ready callbacks, get() calls,
\* close() calls and finalization, the duplicated fd is unregistered and
\* closed exactly once; afterwards _fd is -1, further close() or get()
\* calls perform no fd operation, and get() still returns the accumulated
\* bytes in arrival order.
C15_SpoolerReleasedOnce ==
    /\ [](/\ sp_n_close <= 1 /\ sp_n_remove <= 1
          /\ (sp_fd = -1) <=> (sp_n_close = 1 /\ sp_n_remove = 1)
          /\ sp_readers = IF sp_fd = -1 THEN {} ELSE {sp_fd}
          /\ sp_del => sp_fd = -1
          /\ (sp_op = "get" /\ sp_hup) => sp_fd = -1
          /\ SpBytes = [i \in 1 .. Len(SpBytes) |-> i]
          /\ sp_op = "get" => sp_got = Some(SpBytes))
    /\ [][(sp_fd = -1 /\ sp_op' \in {"get", "close", "del"}) =>
             /\ sp_fdops' = 0 /\ sp_fd' = -1
             /\ sp_contents' = sp_contents]_vars

\* get() on a Spooler that was closed with two blocks accumulated
C15_Witness ==
    /\ sp_op = "get" /\ sp_fd = -1 /\ sp_fdops = 0
    /\ sp_n_close = 1 /\ sp_n_remove = 1
    /\ Len(sp_contents) >= 2 /\ sp_got = Some(SpBytes)

\* C16: a write-readiness handler invocation completes without raising, and
\* the one in which the queue fully drains has, in this order, removed the
\* write registration and delivered resume_writing(), performed the
\* half-close if write_eof() had been requested, and aborted with
\* connection_lost() if close() had been requested.
C16_DrainStepsInOrder ==
    (op = "write_ready" /\ ~peer_closed) =>
        /\ raised = "none"
        /\ queue = None =>
              /\ out_fd \notin writers
              /\ calls # <<>> /\ calls[1] = "resume_writing"
              /\ eof => n_eof_now = 1
              /\ closing => LastCall = "connection_lost"

\* C17 as stated: in every reachable state, reading is true iff the in-fd is
\* registered for read-readiness iff in_fd != -1, including after
\* pause_reading() on an open transport.
C17_ReadingIffFdValid ==
    /\ is_reading <=> readers # {}
    /\ is_reading <=> in_fd # -1

\* C17 amended: reading is true iff the in-fd is registered for
\* read-readiness, only the in-fd is ever registered, and reading implies
\* in_fd != -1; a paused open transport keeps a valid in-fd.
C17_ReadingIffRegistered ==
    /\ is_reading <=> readers # {}
    /\ readers \subseteq {in_fd}
    /\ is_reading => in_fd # -1

\* pause_reading() on an open transport
C17_Witness ==
    /\ op = "pause_reading" /\ ~is_reading /\ readers = {}
    /\ in_fd # -1 /\ ~closing

\* C18: if the write queue is present it holds at least one unwritten byte
\* and the out-fd is registered for write-readiness, also after zero-length
\* writes were appended to an outstanding queue.
C18_QueueNeverEmpty ==
    queue # None =>
        /\ get_write_buffer_size(Self(op)) > 0
        /\ queue[1] # <<>>
        /\ out_fd \in writers

\* a zero-length write was appended to an outstanding queue
C18_Witness ==
    /\ queue # None /\ op = "write"
    /\ \E i \in DOMAIN queue[1] : queue[1][i] = <<>>

\* C19: once the in-fd has been invalidated, resume_reading() is a no-op:
\* the in-fd stays invalid, is_reading() stays false, nothing is registered
\* for reading again and no data_received() or eof_received() is delivered.
C19_NoReadingAfterInvalidation ==
    [][in_fd = -1 =>
          /\ in_fd' = -1 /\ ~is_reading' /\ readers' = {}
          /\ Count(calls', "data_received") = 0
          /\ Count(calls', "eof_received") = 0]_vars

\* resume_reading() after the transport was aborted
C19_Witness ==
    /\ op = "resume_reading" /\ in_fd = -1 /\ n_lost >= 1
    /\ ~is_reading /\ readers = {}

\* resume_writing() is only ever delivered by abort(), on a transport that
\* is already closing: write() from inside that callback is rejected by
\* write()'s assertion, and no drain on an open transport delivers it.
ResumeWritingOnlyInAbort ==
    Count(calls, "resume_writing") > 0 =>
        /\ closing /\ queue = None
        /\ LastCall = "connection_lost"
====
